---- MODULE Spec2Model ----
(***************************************************************************)
(* Prediction league (scorecast, src/app.py): the Firestore documents the  *)
(* request handlers read and write, the handlers themselves, and the week  *)
(* recalculation update_all_user_points_for_week.                          *)
(*                                                                         *)
(* Usernames are document ids; 'users'.stream() delivers the documents in  *)
(* ascending id order, so usernames are modelled as 1..NumUsers and the    *)
(* stream as that order.  Week keys str(week) are modelled as the week     *)
(* number.  A missing 'settings/state' document reads as week 1.           *)
(***************************************************************************)
EXTENDS Integers, FiniteSets, TLC

\* ----------------------------------------------------------------- bounds
NumUsers == 2
NumWeeks == 2
\* goals the scoring function is applied to on its own (0..MaxGoals)
MaxGoals == 3
\* accepted POSTs of /profile and result POSTs of /admin/panel in one run
MaxSubmits == 2
MaxResultPosts == 2
\* requests of /admin/panel the server handles at the same time
NumProcs == 2

Users == 1..NumUsers
Weeks == 1..NumWeeks
Procs == 1..NumProcs
Matches == {"m1", "m2"}
None == "none"

\* a well-formed stored score pair, as profile() and admin_panel() write it
Pair(h, a) == [home |-> h, away |-> a]
WellFormed(pred) == DOMAIN pred = {"home", "away"}

\* the empty dict
EmptyMap == [x \in {} |-> 0]

\* sum(d.values())
RECURSIVE SumValues(_)
SumValues(d) ==
    IF DOMAIN d = {} THEN 0
    ELSE LET k == CHOOSE x \in DOMAIN d : TRUE
         IN d[k] + SumValues([x \in DOMAIN d \ {k} |-> d[x]])

\* dict.get(key, default)
Get(d, k, default) == IF k \in DOMAIN d THEN d[k] ELSE default

\* ------------------------------------------------------- scoring (pure)
\* the outcome class the elif of lines 159-161 compares
Outcome(h, a) == IF h > a THEN "WIN" ELSE IF h < a THEN "LOSS" ELSE "DRAW"

\* mutant: the exact-score branch is tested after the outcome branch
MatchPointsOutcomeFirst(pred, actual) ==
    IF \/ (pred.home > pred.away /\ actual.home > actual.away)
       \/ (pred.home < pred.away /\ actual.home < actual.away)
       \/ (pred.home = pred.away /\ actual.home = actual.away)
    THEN 1
    ELSE IF pred.home = actual.home /\ pred.away = actual.away THEN 3
    ELSE 0

\* mutant: the doubling of the bonus is applied to every correct prediction
MatchPointsDoubled(pred, actual) ==
    IF pred.home = actual.home /\ pred.away = actual.away THEN 6
    ELSE IF \/ (pred.home > pred.away /\ actual.home > actual.away)
            \/ (pred.home < pred.away /\ actual.home < actual.away)
            \/ (pred.home = pred.away /\ actual.home = actual.away)
    THEN 2
    ELSE 0

\* mutant: the actual pair of a drawn match is classed with the home wins
MatchPointsDrawAsWin(pred, actual) ==
    IF pred.home = actual.home /\ pred.away = actual.away THEN 3
    ELSE IF \/ (pred.home > pred.away /\ actual.home >= actual.away)
            \/ (pred.home < pred.away /\ actual.home < actual.away)
            \/ (pred.home = pred.away /\ actual.home = actual.away)
    THEN 1
    ELSE 0

\* points one well-formed prediction adds for one fixture with a result
MatchPoints(pred, actual) ==
    IF pred.home = actual.home /\ pred.away = actual.away THEN 3
    ELSE IF \/ (pred.home > pred.away /\ actual.home > actual.away)
            \/ (pred.home < pred.away /\ actual.home < actual.away)
            \/ (pred.home = pred.away /\ actual.home = actual.away)
    THEN 1
    ELSE 0

\* pred['home'] / pred['away'] raises on a stored prediction lacking a key;
\* only fixtures present in the results are looked at
Raises(user_preds, actual_week_data) ==
    \E m \in DOMAIN user_preds \cap DOMAIN actual_week_data :
        ~WellFormed(user_preds[m])

\* mutant: a fixture without a result is scored as a 0-0 result
ScoredMatchesAll(user_preds, actual_week_data) == DOMAIN user_preds

\* the fixtures of a user's week predictions that are scored
ScoredMatches(user_preds, actual_week_data) ==
    DOMAIN user_preds \cap DOMAIN actual_week_data

\* the inner loop of lines 153-162 over the scored fixtures ms, when no
\* prediction raises (actual_week_data[match] is read only for a match in it)
RECURSIVE SumPoints(_, _, _)
SumPoints(ms, user_preds, actual_week_data) ==
    IF ms = {} THEN 0
    ELSE LET m == CHOOSE x \in ms : TRUE
         IN MatchPoints(user_preds[m], Get(actual_week_data, m, Pair(0, 0)))
            + SumPoints(ms \ {m}, user_preds, actual_week_data)

WeekPoints(user_preds, actual_week_data) ==
    SumPoints(ScoredMatches(user_preds, actual_week_data),
              user_preds, actual_week_data)

\* ------------------------------------------------ storage faults (inputs)
\* what the storage layer does to one results POST: the set() of the results
\* document raises; the read of the results raises (get_actual_results_for_week
\* then returns {}); the users stream raises when it reaches a username
\* (0: never); get()/update() of these users' documents raises
NoFault ==
    [set_fail |-> FALSE, results_read_fail |-> FALSE,
     stream_fail_at |-> 0, write_fail |-> {}]
\* the faults a request of the model meets: none, or one call that raises
Faults ==
    {NoFault, [NoFault EXCEPT !.set_fail = TRUE],
     [NoFault EXCEPT !.results_read_fail = TRUE]}
    \cup {[NoFault EXCEPT !.stream_fail_at = n] : n \in Users}
    \cup {[NoFault EXCEPT !.write_fail = {n}] : n \in Users}

\* --------------------------------------------------- week recalculation
\* mutant: the cumulative total is maintained incrementally
UpdateUserPointsIncremental(us, username, week, new_points, fails) ==
    IF fails \/ username \notin DOMAIN us THEN us
    ELSE [us EXCEPT
            ![username].points_by_week = (week :> new_points) @@ @,
            ![username].points = @ + new_points]

\* mutant: the week total is added to the stored week total
UpdateUserPointsAccumulate(us, username, week, new_points, fails) ==
    IF fails \/ username \notin DOMAIN us THEN us
    ELSE LET points_by_week ==
                 (week :> (Get(us[username].points_by_week, week, 0) + new_points))
                 @@ us[username].points_by_week
         IN [us EXCEPT ![username].points_by_week = points_by_week,
                       ![username].points = SumValues(points_by_week)]

\* mutant: the map written back holds the recalculated week only
UpdateUserPointsOnlyWeek(us, username, week, new_points, fails) ==
    IF fails \/ username \notin DOMAIN us THEN us
    ELSE LET points_by_week == (week :> new_points)
         IN [us EXCEPT ![username].points_by_week = points_by_week,
                       ![username].points = SumValues(points_by_week)]

\* update_user_points_for_week: the users collection after the call.  A
\* raising get()/update() is caught (line 131) and leaves the document as is.
UpdateUserPoints(us, username, week, new_points, fails) ==
    IF fails \/ username \notin DOMAIN us THEN us
    ELSE LET points_by_week ==
                 (week :> new_points) @@ us[username].points_by_week
         IN [us EXCEPT ![username].points_by_week = points_by_week,
                       ![username].points = SumValues(points_by_week)]

\* the loop of lines 145-164 from username n on: snap is what the stream
\* delivers, us the collection as written so far.  An exception (the stream,
\* a malformed prediction) leaves the loop for the handler of line 166.
RECURSIVE RecalcLoop(_, _, _, _, _, _)
RecalcLoop(n, snap, us, week, actual_week_data, fault) ==
    IF n > NumUsers THEN [users |-> us, log |-> {}]
    ELSE IF n = fault.stream_fail_at
    THEN [users |-> us, log |-> {"update_all_failed"}]
    ELSE IF n \notin DOMAIN snap
    THEN RecalcLoop(n + 1, snap, us, week, actual_week_data, fault)
    ELSE LET user_preds == Get(snap[n].predictions, week, EmptyMap)
         IN IF DOMAIN user_preds = {}
            THEN RecalcLoop(n + 1, snap, us, week, actual_week_data, fault)
            ELSE IF Raises(user_preds, actual_week_data)
            THEN [users |-> us, log |-> {"update_all_failed"}]
            ELSE LET fails == n \in fault.write_fail
                     rest == RecalcLoop(n + 1, snap,
                                 UpdateUserPoints(us, n, week,
                                     WeekPoints(user_preds, actual_week_data), fails),
                                 week, actual_week_data, fault)
                 IN [users |-> rest.users,
                     log |-> rest.log \cup
                             (IF fails THEN {"update_user_failed"} ELSE {})]

\* update_all_user_points_for_week(week): the users collection after the call
\* and the error lines it printed.  It returns nothing to its caller.
UpdateAllUserPoints(us, results, week, fault) ==
    LET actual_week_data ==
            IF fault.results_read_fail THEN EmptyMap
            ELSE Get(results, week, EmptyMap)
    IN IF DOMAIN actual_week_data = {}
       THEN [users |-> us,
             log |-> IF fault.results_read_fail
                     THEN {"fetch_results_failed", "no_results"}
                     ELSE {"no_results"}]
       ELSE RecalcLoop(1, us, us, week, actual_week_data, fault)

\* ---------------------------------------------------------------- state
VARIABLES
    users,           \* collection 'users': username -> document
    fixtures,        \* collection 'fixtures': week -> the matches of its documents
    actual_results,  \* collection 'actual_results': week -> {match: score pair}
    current_week,    \* settings/state.current_week
    deadlines,       \* deadlines/all_deadlines.deadlines: week -> deadline
    admin,           \* session['admin'] of the administrator's browser
    flash,           \* the message the last request flashed (None: nothing)
    log,             \* the error lines the last request printed
    submits,         \* accepted POSTs of /profile so far
    result_posts,    \* result POSTs of /admin/panel so far
    call,            \* one application of the scoring function on its own
    recalc           \* the results POSTs in flight: request -> its local state

vars == <<users, fixtures, actual_results, current_week, deadlines, admin,
          flash, log, submits, result_posts, call, recalc>>

\* deadlines and clock readings, in minutes
Times == {0, 1}

\* what the forms of the model carry.  A prediction form gives, per match, a
\* score pair or nothing; the administrator enters the results 1-0 and 1-1,
\* for the first match or for both, or corrects the first to 0-1.
PredictionForms ==
    {EmptyMap,
     [m \in {"m1"} |-> Pair(1, 0)],
     [m \in Matches |-> IF m = "m1" THEN Pair(1, 0) ELSE Pair(0, 0)],
     [m \in Matches |-> IF m = "m1" THEN Pair(0, 1) ELSE Pair(1, 1)]}
ResultForms ==
    {EmptyMap,
     [m \in {"m1"} |-> Pair(1, 0)],
     [m \in Matches |-> IF m = "m1" THEN Pair(1, 0) ELSE Pair(1, 1)],
     [m \in Matches |-> IF m = "m1" THEN Pair(0, 1) ELSE Pair(1, 1)]}

\* the document register() writes (lines 273-280); the password hash is read
\* by login() only and the character by no handler modelled here
NewUser ==
    [password |-> "hash", points |-> 0, group |-> "A",
     predictions |-> EmptyMap, points_by_week |-> EmptyMap]

\* the message of line 546
ResultsUpdated == "Actual results updated and points recalculated."

NoCall == [ph |-> 0, pa |-> 0, ah |-> 0, aa |-> 0, ret |-> -1]

\* a request slot holding no results POST, and the locals of a results POST:
\* week (line 466), actual_week_data (138), the predictions of the streamed
\* documents (143-148), the username the loop is at, and points_by_week and
\* new_points of update_user_points_for_week (115, 123)
IdleProc ==
    [pc |-> "idle", week |-> 0, actual_week_data |-> EmptyMap,
     snap |-> EmptyMap, n |-> 0, points_by_week |-> EmptyMap, new_points |-> 0]
NoRecalc == [p \in Procs |-> IdleProc]

Init ==
    /\ users = EmptyMap
    /\ fixtures = [w \in Weeks |-> {}]
    /\ actual_results = EmptyMap
    /\ current_week = 1
    /\ deadlines = EmptyMap
    /\ admin = FALSE
    /\ flash = None
    /\ log = {}
    /\ submits = 0
    /\ result_posts = 0
    /\ call = NoCall
    /\ recalc = NoRecalc

\* ------------------------------------------------------------- handlers
\* Every user's browser holds a session logged in as that user (login(),
\* lines 310-320, writes no document); the administrator's browser holds the
\* session whose 'admin' key the variable admin models.

\* POST /register with a valid form for a free username (lines 262-286)
Register(username) ==
    /\ username \notin DOMAIN users
    /\ users' = (username :> NewUser) @@ users
    /\ flash' = "Registration successful! Please log in."
    /\ log' = {}
    /\ UNCHANGED <<fixtures, actual_results, current_week, deadlines, admin,
                   submits, result_posts, call, recalc>>

\* mutant: logout pops the user keys of the session only
LogoutKeepsAdmin ==
    /\ flash' = "Logged out successfully."
    /\ log' = {}
    /\ UNCHANGED <<users, fixtures, actual_results, current_week, deadlines,
                   admin, submits, result_posts, call, recalc>>

\* GET /logout from the administrator's browser (lines 331-337)
Logout ==
    /\ admin' = FALSE
    /\ flash' = "Logged out successfully."
    /\ log' = {}
    /\ UNCHANGED <<users, fixtures, actual_results, current_week, deadlines,
                   submits, result_posts, call, recalc>>

\* POST /admin (lines 446-452)
AdminLogin(password_ok) ==
    /\ IF password_ok
       THEN /\ admin' = TRUE
            /\ flash' = None
       ELSE /\ flash' = "Incorrect admin password."
            /\ UNCHANGED admin
    /\ log' = {}
    /\ UNCHANGED <<users, fixtures, actual_results, current_week, deadlines,
                   submits, result_posts, call, recalc>>

\* the scores a form leaves for the fixtures of a week: a fixture whose two
\* fields are digits (lines 386-394, 530-541)
FormScores(form, week) ==
    [m \in DOMAIN form \cap fixtures[week] |-> form[m]]

\* mutant: the deadline test of line 381 is missing
SubmitPredictionsNoDeadline(username, form, now) ==
    /\ username \in DOMAIN users
    /\ users' = [users EXCEPT ![username].predictions =
                    (current_week :> FormScores(form, current_week)) @@ @]
    /\ flash' = "Predictions saved!"
    /\ submits' = submits + 1
    /\ log' = {}
    /\ UNCHANGED <<fixtures, actual_results, current_week, deadlines, admin,
                   result_posts, call, recalc>>

\* POST /profile of a registered user (lines 372-400); now is the clock
\* reading of the request
SubmitPredictions(username, form, now) ==
    /\ username \in DOMAIN users
    /\ IF current_week \in DOMAIN deadlines /\ now > deadlines[current_week]
       THEN /\ flash' = "Prediction deadline has passed."
            /\ UNCHANGED <<users, submits>>
       ELSE /\ users' = [users EXCEPT ![username].predictions =
                            (current_week :> FormScores(form, current_week)) @@ @]
            /\ flash' = "Predictions saved!"
            /\ submits' = submits + 1
    /\ log' = {}
    /\ UNCHANGED <<fixtures, actual_results, current_week, deadlines, admin,
                   result_posts, call, recalc>>

\* POST /admin/panel with save_settings (lines 471-488); deadline is the set
\* holding the deadline field's value, empty when the field is empty
AdminSaveSettings(new_week, deadline) ==
    /\ admin
    /\ current_week' = new_week
    /\ IF deadline # {}
       THEN deadlines' = [w \in DOMAIN deadlines \cup {new_week} |->
                             IF w = new_week THEN CHOOSE d \in deadline : TRUE
                             ELSE deadlines[w]]
       ELSE UNCHANGED deadlines
    /\ flash' = IF deadline # {} THEN "Prediction deadline updated."
                ELSE "Current week set"
    /\ log' = {}
    /\ UNCHANGED <<users, fixtures, actual_results, admin, submits,
                   result_posts, call, recalc>>

\* POST /admin/panel with update_fixtures for the matches ms (lines 490-524)
AdminUpdateFixtures(ms) ==
    /\ admin
    /\ fixtures' = [fixtures EXCEPT ![current_week] = @ \cup ms]
    /\ flash' = "Saved fixtures to Firestore."
    /\ log' = {}
    /\ UNCHANGED <<users, actual_results, current_week, deadlines, admin,
                   submits, result_posts, call, recalc>>

\* POST /admin/panel with update_results (lines 526-548, 553-555)
AdminUpdateResults(form, fault) ==
    /\ admin
    /\ result_posts' = result_posts + 1
    /\ LET week_actuals == FormScores(form, current_week)
       IN IF DOMAIN week_actuals = {}
          THEN /\ flash' = "No valid scores provided."
               /\ log' = {}
               /\ UNCHANGED <<users, actual_results>>
          ELSE IF fault.set_fail
          THEN /\ flash' = "Error processing form"
               /\ log' = {"processing_form_failed"}
               /\ UNCHANGED <<users, actual_results>>
          ELSE LET results == (current_week :> week_actuals) @@ actual_results
                   done == UpdateAllUserPoints(users, results, current_week, fault)
               IN /\ actual_results' = results
                  /\ users' = done.users
                  /\ log' = done.log
                  /\ flash' = ResultsUpdated
    /\ UNCHANGED <<fixtures, current_week, deadlines, admin, submits, call, recalc>>

\* GET /admin/reset (lines 596-608)
AdminReset ==
    /\ admin
    /\ users' = EmptyMap
    /\ fixtures' = [w \in Weeks |-> {}]
    /\ actual_results' = EmptyMap
    /\ deadlines' = EmptyMap
    /\ current_week' = 1
    /\ flash' = "All data has been reset. App is now in a clean state."
    /\ log' = {}
    /\ UNCHANGED <<admin, submits, result_posts, call, recalc>>

Next ==
    \/ \E username \in Users : Register(username)
    \/ Logout
    \/ \E password_ok \in BOOLEAN : AdminLogin(password_ok)
    \/ \E username \in Users, form \in PredictionForms, now \in Times :
           submits < MaxSubmits /\ SubmitPredictions(username, form, now)
    \/ \E new_week \in Weeks : AdminSaveSettings(new_week, {})
    \/ AdminUpdateFixtures(Matches)
    \/ \E form \in ResultForms, fault \in Faults :
           result_posts < MaxResultPosts /\ AdminUpdateResults(form, fault)
    \/ AdminReset

\* Every handler, from the empty store.  No deadline is configured here: a
\* deadline only makes profile() reject a POST, which leaves the documents as
\* they are.
Spec == Init /\ [][Next]_vars

\* ------------------------------------------- the scoring function alone
Goals == 0..MaxGoals

InitScore ==
    /\ Init!1 /\ Init!2 /\ Init!3 /\ Init!4 /\ Init!5 /\ Init!6 /\ Init!7
    /\ Init!8 /\ Init!9 /\ Init!10
    /\ call \in [ph : Goals, pa : Goals, ah : Goals, aa : Goals, ret : {-1}]
    /\ Init!12

\* the body of the loop of lines 154-162 for one prediction and one result
ApplyScore ==
    /\ call.ret = -1
    /\ call' = [call EXCEPT !.ret =
                   MatchPoints(Pair(call.ph, call.pa), Pair(call.ah, call.aa))]
    /\ UNCHANGED <<users, fixtures, actual_results, current_week, deadlines,
                   admin, flash, log, submits, result_posts, recalc>>

NextScore == ApplyScore

SpecScore == InitScore /\ [][NextScore]_vars

\* ------------------------------- a store holding a malformed prediction
\* The league is set up (both users registered, the fixtures of every week
\* saved, the administrator logged in) and the document of user 1 holds, for
\* week 1, a prediction without its 'away' score.
InitLegacy ==
    /\ users = [u \in Users |->
                  IF u = 1
                  THEN [NewUser EXCEPT !.predictions =
                           [w \in {1} |-> [m \in {"m1"} |-> [home |-> 1]]]]
                  ELSE NewUser]
    /\ fixtures = [w \in Weeks |-> Matches]
    /\ actual_results = EmptyMap
    /\ current_week = 1
    /\ deadlines = EmptyMap
    /\ admin = TRUE
    /\ flash = None
    /\ log = {}
    /\ submits = 0
    /\ result_posts = 0
    /\ call = NoCall
    /\ recalc = NoRecalc

\* predictions and results are posted; the storage layer never raises
NextLegacy ==
    \/ \E username \in Users, form \in PredictionForms, now \in Times :
           submits < MaxSubmits /\ SubmitPredictions(username, form, now)
    \/ \E new_week \in Weeks : AdminSaveSettings(new_week, {})
    \/ \E form \in ResultForms :
           result_posts < MaxResultPosts /\ AdminUpdateResults(form, NoFault)

SpecLegacy == InitLegacy /\ [][NextLegacy]_vars

\* ------------------------------------------------ prediction deadlines
\* The league is set up (every user registered, the fixtures of every week
\* saved, the administrator logged in).  The administrator sets the week, with
\* or without a deadline, and users post their predictions at any clock
\* reading.  No results are posted.
InitDeadline ==
    /\ users = [u \in Users |-> NewUser]
    /\ fixtures = [w \in Weeks |-> Matches]
    /\ actual_results = EmptyMap
    /\ current_week = 1
    /\ deadlines = EmptyMap
    /\ admin = TRUE
    /\ flash = None
    /\ log = {}
    /\ submits = 0
    /\ result_posts = 0
    /\ call = NoCall
    /\ recalc = NoRecalc

DeadlineInputs == {{}} \cup {{d} : d \in Times}
DeadlineForms ==
    {[m \in {"m1"} |-> Pair(1, 0)],
     [m \in Matches |-> IF m = "m1" THEN Pair(0, 1) ELSE Pair(1, 1)]}

NextDeadline ==
    \/ \E new_week \in Weeks, deadline \in DeadlineInputs :
           AdminSaveSettings(new_week, deadline)
    \/ \E username \in Users, form \in DeadlineForms, now \in Times :
           submits < MaxSubmits /\ SubmitPredictions(username, form, now)

SpecDeadline == InitDeadline /\ [][NextDeadline]_vars

\* ------------------------------------------------- the administrator flag
\* ADMIN_PASSWORD (line 30) as set in the environment of the deployment, and
\* what the password field of a POST of /admin carries (None: no such field)
ADMIN_PASSWORD == "secret"
Passwords == {ADMIN_PASSWORD, "guess", None}

\* POST /admin with a password field (lines 446-452)
AdminPost(password) == AdminLogin(~(password # ADMIN_PASSWORD))

\* POST /admin/panel from a session without the flag (lines 461-463)
AdminPanelDenied ==
    /\ ~admin
    /\ flash' = "Admin login required."
    /\ log' = {}
    /\ UNCHANGED <<users, fixtures, actual_results, current_week, deadlines,
                   admin, submits, result_posts, call, recalc>>

\* GET /admin/reset from a session without the flag (lines 596-598)
AdminResetDenied ==
    /\ ~admin
    /\ flash' = "Admin login required to perform reset."
    /\ log' = {}
    /\ UNCHANGED <<users, fixtures, actual_results, current_week, deadlines,
                   admin, submits, result_posts, call, recalc>>

\* Every request of the administrator's browser, with and without the flag,
\* beside the users' registrations; the storage layer never raises.
NextAdmin ==
    \/ \E username \in Users : Register(username)
    \/ \E password \in Passwords : AdminPost(password)
    \/ Logout
    \/ AdminPanelDenied
    \/ AdminResetDenied
    \/ \E new_week \in Weeks, deadline \in DeadlineInputs :
           AdminSaveSettings(new_week, deadline)
    \/ AdminUpdateFixtures(Matches)
    \/ \E form \in ResultForms :
           result_posts < MaxResultPosts /\ AdminUpdateResults(form, NoFault)
    \/ AdminReset

SpecAdmin == Init /\ [][NextAdmin]_vars

\* ------------------------------------ results POSTs handled concurrently
\* The server handles requests concurrently (gevent, line 36): a request can
\* be suspended at each of its Firestore calls while another one runs.  A
\* results POST is split at these calls: set() of the results (544), get() of
\* the results (138), stream() of the users (143), and per user get() (120) and
\* update() (126).  The league is set up and every user has stored predictions
\* for every week; the storage layer never raises.
StoredPredictions(u) ==
    [w \in Weeks |->
        [m \in Matches |-> IF m = "m1" THEN Pair(u % 2, (u + 1) % 2)
                           ELSE Pair(1, 1)]]
InitConcurrent ==
    /\ users = [u \in Users |->
                  [NewUser EXCEPT !.predictions = StoredPredictions(u)]]
    /\ fixtures = [w \in Weeks |-> Matches]
    /\ actual_results = EmptyMap
    /\ current_week = 1
    /\ deadlines = EmptyMap
    /\ admin = TRUE
    /\ flash = None
    /\ log = {}
    /\ submits = 0
    /\ result_posts = 0
    /\ call = NoCall
    /\ recalc = NoRecalc

ConcurrentForms ==
    {[m \in Matches |-> IF m = "m1" THEN Pair(1, 0) ELSE Pair(1, 1)],
     [m \in Matches |-> IF m = "m1" THEN Pair(0, 1) ELSE Pair(1, 1)]}

\* the request ends: its flash and error lines are those of the last request
EndRequest(p, message, lines) ==
    /\ recalc' = [recalc EXCEPT ![p] = IdleProc]
    /\ flash' = message
    /\ log' = lines

\* admin_panel up to the set() of line 544 (lines 461-466, 526-544)
PostResults(p, form) ==
    /\ admin
    /\ recalc[p].pc = "idle"
    /\ result_posts' = result_posts + 1
    /\ LET week_actuals == FormScores(form, current_week)
       IN IF DOMAIN week_actuals = {}
          THEN /\ flash' = "No valid scores provided."
               /\ log' = {}
               /\ UNCHANGED <<actual_results, recalc>>
          ELSE /\ actual_results' =
                      (current_week :> week_actuals) @@ actual_results
               /\ recalc' = [recalc EXCEPT ![p] =
                      [IdleProc EXCEPT !.pc = "read_results",
                                       !.week = current_week]]
               /\ UNCHANGED <<flash, log>>
    /\ UNCHANGED <<users, fixtures, current_week, deadlines, admin, submits, call>>

\* get_actual_results_for_week (lines 138-141)
ReadResults(p) ==
    /\ recalc[p].pc = "read_results"
    /\ LET actual_week_data == Get(actual_results, recalc[p].week, EmptyMap)
       IN IF DOMAIN actual_week_data = {}
          THEN EndRequest(p, ResultsUpdated, {"no_results"})
          ELSE /\ recalc' = [recalc EXCEPT
                      ![p].pc = "stream",
                      ![p].actual_week_data = actual_week_data]
               /\ UNCHANGED <<flash, log>>
    /\ UNCHANGED <<users, fixtures, actual_results, current_week, deadlines,
                   admin, submits, result_posts, call>>

\* db.collection('users').stream() (line 143): the documents as they are now
StreamUsers(p) ==
    /\ recalc[p].pc = "stream"
    /\ recalc' = [recalc EXCEPT
           ![p].pc = "loop",
           ![p].snap = [u \in DOMAIN users |-> users[u].predictions],
           ![p].n = 1]
    /\ UNCHANGED <<users, fixtures, actual_results, current_week, deadlines,
                   admin, flash, log, submits, result_posts, call>>

\* one iteration of the loop up to the get() of update_user_points_for_week
\* (lines 145-164, 119-124)
LoopStep(p) ==
    /\ recalc[p].pc = "loop"
    /\ recalc[p].n <= NumUsers
    /\ LET n == recalc[p].n
           week == recalc[p].week
           user_preds == IF n \in DOMAIN recalc[p].snap
                         THEN Get(recalc[p].snap[n], week, EmptyMap)
                         ELSE EmptyMap
       IN IF DOMAIN user_preds = {} \/ n \notin DOMAIN users
          THEN /\ recalc' = [recalc EXCEPT ![p].n = n + 1]
               /\ UNCHANGED <<flash, log>>
          ELSE IF Raises(user_preds, recalc[p].actual_week_data)
          THEN EndRequest(p, ResultsUpdated, {"update_all_failed"})
          ELSE /\ recalc' = [recalc EXCEPT
                      ![p].pc = "update",
                      ![p].new_points =
                          WeekPoints(user_preds, recalc[p].actual_week_data),
                      ![p].points_by_week =
                          (week :> WeekPoints(user_preds, recalc[p].actual_week_data))
                          @@ users[n].points_by_week]
               /\ UNCHANGED <<flash, log>>
    /\ UNCHANGED <<users, fixtures, actual_results, current_week, deadlines,
                   admin, submits, result_posts, call>>

\* user_ref.update() with the map built from the document read (lines 125-129)
UpdateUser(p) ==
    /\ recalc[p].pc = "update"
    /\ LET n == recalc[p].n
       IN /\ IF n \in DOMAIN users
             THEN users' = [users EXCEPT
                     ![n].points_by_week = recalc[p].points_by_week,
                     ![n].points = SumValues(recalc[p].points_by_week)]
             ELSE UNCHANGED users
          /\ recalc' = [recalc EXCEPT
                 ![p].pc = "loop", ![p].n = n + 1,
                 ![p].points_by_week = EmptyMap, ![p].new_points = 0]
    /\ UNCHANGED <<fixtures, actual_results, current_week, deadlines, admin,
                   flash, log, submits, result_posts, call>>

\* the stream is exhausted: flash of line 546 and the redirect of line 557
FinishResults(p) ==
    /\ recalc[p].pc = "loop"
    /\ recalc[p].n > NumUsers
    /\ EndRequest(p, ResultsUpdated, {})
    /\ UNCHANGED <<users, fixtures, actual_results, current_week, deadlines,
                   admin, submits, result_posts, call>>

NextConcurrent ==
    \/ \E new_week \in Weeks : AdminSaveSettings(new_week, {})
    \/ \E p \in Procs, form \in ConcurrentForms :
           result_posts < MaxResultPosts /\ PostResults(p, form)
    \/ \E p \in Procs : ReadResults(p)
    \/ \E p \in Procs : StreamUsers(p)
    \/ \E p \in Procs : LoopStep(p)
    \/ \E p \in Procs : UpdateUser(p)
    \/ \E p \in Procs : FinishResults(p)

SpecConcurrent == InitConcurrent /\ [][NextConcurrent]_vars

\* ============================================================== claims
\* what the claims speak of, stated apart from the code's branches
ClassOf(pair) == Outcome(pair.home, pair.away)
BasePoints(pred, actual) ==
    IF ClassOf(pred) # ClassOf(actual) THEN 0
    ELSE IF pred.home = actual.home /\ pred.away = actual.away THEN 3
    ELSE 1

PredsOf(u, w) == Get(users[u].predictions, w, EmptyMap)
ResultsOf(w) == Get(actual_results, w, EmptyMap)
WeekTotal(u, w) == Get(users[u].points_by_week, w, 0)
Scored(u, w) == DOMAIN PredsOf(u, w) \cap DOMAIN ResultsOf(w)
HasPredictions(u, w) == DOMAIN PredsOf(u, w) # {}
AllWellFormed(u, w) == \A m \in DOMAIN PredsOf(u, w) : WellFormed(PredsOf(u, w)[m])

\* u predicted the outcome class of the result of fixture m of week w
Correct(u, w, m) ==
    /\ u \in DOMAIN users
    /\ m \in Scored(u, w)
    /\ WellFormed(PredsOf(u, w)[m])
    /\ ClassOf(PredsOf(u, w)[m]) = ClassOf(ResultsOf(w)[m])
Cohort(u) == {v \in DOMAIN users : users[v].group = users[u].group}
CorrectMembers(u, w, m) == {v \in Cohort(u) : Correct(v, w, m)}
UniqueCorrect(u, w, m) == CorrectMembers(u, w, m) = {u}

\* the week total without any bonus, and with the bonus of the spec's 4.2/4.3
BaseTotal(u, w) ==
    SumValues([m \in Scored(u, w) |->
                  BasePoints(PredsOf(u, w)[m], ResultsOf(w)[m])])
BonusTotal(u, w) ==
    SumValues([m \in Scored(u, w) |->
                  BasePoints(PredsOf(u, w)[m], ResultsOf(w)[m])
                  * (IF UniqueCorrect(u, w, m) THEN 2 ELSE 1)])

\* the last request was a results POST whose recalculation of current_week
\* printed no error
CleanRecalcDone == flash = ResultsUpdated /\ log = {}
RecalcFailures ==
    {"update_all_failed", "update_user_failed", "fetch_results_failed"}

\* C1: for every prediction (ph, pa) and result (ah, aa) the points added for
\* the fixture are 0 when the outcome classes differ, 3 when both scores are
\* equal, and 1 when the classes agree but the scores do not.
C1_BasePoints ==
    call.ret # -1 =>
        call.ret =
            IF Outcome(call.ph, call.pa) # Outcome(call.ah, call.aa) THEN 0
            ELSE IF call.ph = call.ah /\ call.pa = call.aa THEN 3
            ELSE 1
C1_Witness ==
    /\ call.ret = 1
    /\ call.ph > call.pa
    /\ call.ph # call.ah

\* C2 (as claimed): after a recalculation, a user who alone in the cohort
\* predicted the outcome class of a fixture has that fixture's points doubled,
\* so the week total is the total with the bonus.
C2_UniqueDoubled ==
    CleanRecalcDone =>
        \A u \in DOMAIN users :
            (/\ HasPredictions(u, current_week)
             /\ \E m \in Matches : UniqueCorrect(u, current_week, m))
            => WeekTotal(u, current_week) = BonusTotal(u, current_week)

\* C3: after a recalculation, a user all of whose correctly predicted fixtures
\* were predicted correctly by another member of the cohort too gets the
\* undoubled points: 3 for each exact score, 1 for each outcome only.
SharedCorrect(u, w) ==
    /\ HasPredictions(u, w)
    /\ \E m \in Matches : Correct(u, w, m)
    /\ \A m \in Matches :
           Correct(u, w, m) => Cardinality(CorrectMembers(u, w, m)) >= 2
C3_SharedNotDoubled ==
    CleanRecalcDone =>
        \A u \in DOMAIN users :
            SharedCorrect(u, current_week)
            => WeekTotal(u, current_week) = BaseTotal(u, current_week)
C3_Witness ==
    /\ CleanRecalcDone
    /\ \E u \in DOMAIN users :
           /\ SharedCorrect(u, current_week)
           /\ WeekTotal(u, current_week) = 4

\* C4: in every state every user's cumulative total 'points' is the sum of the
\* values of 'points_by_week'.
C4_TotalIsSum ==
    \A u \in DOMAIN users :
        users[u].points = SumValues(users[u].points_by_week)
C4_Witness ==
    \E u \in DOMAIN users :
        /\ DOMAIN users[u].points_by_week = Weeks
        /\ \A w \in Weeks : users[u].points_by_week[w] > 0

\* C5: once a recalculation of a week has run, running it again on the same
\* predictions, results and cohorts leaves every user document as it is.
C5_Idempotent ==
    CleanRecalcDone =>
        UpdateAllUserPoints(users, actual_results, current_week, NoFault).users
            = users
C5_Witness ==
    /\ CleanRecalcDone
    /\ \E u \in DOMAIN users : WeekTotal(u, current_week) > 0
    /\ \E u \in DOMAIN users : ~HasPredictions(u, current_week)

\* C6 (as claimed): after the results of a week are recorded or corrected and
\* the recalculation completes without failure, every user's week total is the
\* score of the predictions the user has stored now; no prediction, no points.
C6_TotalsFollowPredictions ==
    CleanRecalcDone =>
        \A u \in DOMAIN users :
            WeekTotal(u, current_week) = BaseTotal(u, current_week)

\* C7 (as claimed): a recalculation in which the write of a user's points
\* fails changes no user's points_by_week or points.
C7_AllOrNothing ==
    [][("update_user_failed" \in log') =>
          \A u \in DOMAIN users :
              /\ u \in DOMAIN users'
              /\ users'[u].points_by_week = users[u].points_by_week
              /\ users'[u].points = users[u].points]_vars

\* C8 (as claimed): when the recalculation fails the administrator never sees
\* the message 'Actual results updated and points recalculated.'
C8_FailureSurfaced ==
    (log \cap RecalcFailures # {}) => flash # ResultsUpdated

MissingResult(w) == fixtures[w] \ DOMAIN ResultsOf(w)
C10_MissingResultSkipped ==
    (CleanRecalcDone /\ MissingResult(current_week) # {}) =>
        \A u \in DOMAIN users :
            HasPredictions(u, current_week)
            => WeekTotal(u, current_week) = BaseTotal(u, current_week)
C10_Witness ==
    /\ CleanRecalcDone
    /\ \E u \in DOMAIN users, m \in MissingResult(current_week) :
           /\ m \in DOMAIN PredsOf(u, current_week)
           /\ PredsOf(u, current_week)[m].home = PredsOf(u, current_week)[m].away
           /\ WeekTotal(u, current_week) = 3

\* the stored predictions of user u for week w after the step
PredsAfter(u, w) == Get(users'[u].predictions, w, EmptyMap)

\* C11 (as claimed): an accepted submission is an upsert per (user, week,
\* fixture): a key stored before the submission is stored after it, with the
\* submitted pair when the form carries one for it and with its earlier pair
\* otherwise, so no stored key is lost and the keys of other weeks and other
\* users keep their pairs.
C11_UpsertPerKey ==
    [][(flash' = "Predictions saved!") =>
          \A u \in DOMAIN users, w \in Weeks :
              /\ u \in DOMAIN users'
              /\ DOMAIN PredsOf(u, w) \subseteq DOMAIN PredsAfter(u, w)
              /\ w # current_week => PredsAfter(u, w) = PredsOf(u, w)]_vars

\* C13: the outcome class of a pair of goals in 0..MaxGoals is exactly one of
\* WIN (home > away), DRAW (home = away), LOSS (home < away); a pair is a WIN
\* exactly when the swapped pair is a LOSS; and the scoring classes the
\* predicted and the actual pair alike: a fixture adds points exactly when the
\* two classes are equal.
Classes == {"WIN", "DRAW", "LOSS"}
WellClassed(h, a) ==
    /\ Outcome(h, a) \in Classes
    /\ Outcome(h, a) = "WIN" <=> h > a
    /\ Outcome(h, a) = "DRAW" <=> h = a
    /\ Outcome(h, a) = "LOSS" <=> h < a
    /\ Outcome(h, a) = "WIN" <=> Outcome(a, h) = "LOSS"
C13_Classifier ==
    /\ WellClassed(call.ph, call.pa)
    /\ WellClassed(call.ah, call.aa)
    /\ call.ret # -1 =>
           (call.ret > 0 <=> Outcome(call.ph, call.pa) = Outcome(call.ah, call.aa))
C13_Witness ==
    /\ call.ret = 0
    /\ Outcome(call.ph, call.pa) = "WIN"
    /\ Outcome(call.ah, call.aa) = "DRAW"

OtherFields(doc) == [f \in DOMAIN doc \ {"predictions"} |-> doc[f]]
RecalcFrame ==
    /\ DOMAIN users' = DOMAIN users
    /\ \A u \in DOMAIN users :
           /\ users'[u].predictions = users[u].predictions
           /\ users'[u].group = users[u].group
           /\ users'[u].password = users[u].password
           /\ DOMAIN users'[u] = DOMAIN users[u]
           /\ \A w \in Weeks \ {current_week} :
                  /\ w \in DOMAIN users'[u].points_by_week
                       <=> w \in DOMAIN users[u].points_by_week
                  /\ Get(users'[u].points_by_week, w, 0) = WeekTotal(u, w)
    /\ \A w \in Weeks \ {current_week} :
           /\ w \in DOMAIN actual_results' <=> w \in DOMAIN actual_results
           /\ Get(actual_results', w, EmptyMap) = ResultsOf(w)
    /\ \/ actual_results' = actual_results
       \/ \E form \in ResultForms :
              actual_results' =
                  (current_week :> FormScores(form, current_week)) @@ actual_results
SubmitFrame ==
    /\ DOMAIN users' = DOMAIN users
    /\ \E u \in DOMAIN users :
           \A v \in DOMAIN users :
               /\ OtherFields(users'[v]) = OtherFields(users[v])
               /\ v # u => users'[v] = users[v]
    /\ UNCHANGED <<fixtures, actual_results, current_week, deadlines>>
C16_Frame ==
    [][/\ (result_posts' # result_posts) => RecalcFrame
       /\ (flash' = "Predictions saved!") => SubmitFrame]_vars
C16_Witness ==
    /\ CleanRecalcDone
    /\ current_week = 2
    /\ \E u \in DOMAIN users :
           /\ WeekTotal(u, 1) > 0
           /\ WeekTotal(u, 2) > 0
           /\ HasPredictions(u, 1)

\* C17: the week, the deadlines, the fixtures and the results change, and
\* users are deleted, only in a step taken while the session carries the
\* administrator flag; the flag appears only in a POST of /admin whose password
\* equals ADMIN_PASSWORD; a logout leaves the session without the flag.
AdminData == <<current_week, deadlines, fixtures, actual_results>>
C17_AdminOnly ==
    [][/\ (AdminData' # AdminData) => admin
       /\ (DOMAIN users \ DOMAIN users' # {}) => admin
       /\ (admin' /\ ~admin) =>
              \E password \in Passwords :
                  password = ADMIN_PASSWORD /\ AdminPost(password)
       /\ Logout => ~admin']_vars
C17_Witness ==
    /\ ~admin
    /\ flash \in {"Admin login required.", "Admin login required to perform reset."}
    /\ fixtures[current_week] # {}
    /\ deadlines # EmptyMap

\* no results POST is in flight
Quiescent == \A p \in Procs : recalc[p].pc = "idle"

\* C12 (as claimed): results were posted for one week only, so that every
\* recalculation was of that week; once all of them have finished, every user
\* with predictions has the week total of these predictions against the
\* results stored now.
C12_OneVersion ==
    (Quiescent /\ Cardinality(DOMAIN actual_results) = 1) =>
        \A w \in DOMAIN actual_results, u \in DOMAIN users :
            HasPredictions(u, w) => WeekTotal(u, w) = BaseTotal(u, w)

\* C14 (as claimed): once all recalculations have finished, the points_by_week
\* of every user with predictions holds an entry for every week whose results
\* were posted; no week's entry is lost.
C14_BothWeeksKept ==
    Quiescent =>
        \A w \in DOMAIN actual_results, u \in DOMAIN users :
            HasPredictions(u, w) => w \in DOMAIN users[u].points_by_week

====
